---------------------------- MODULE Spec2Model ----------------------------
(***************************************************************************)
(* Model of src/main.py: the Excel validator (validate_excel) and the      *)
(* analysis engine (rsi, compute_analysis).                                *)
(*                                                                         *)
(* Numbers.  A pandas float is modelled as a pair <<n, d>>: d > 0 is the   *)
(* rational n/d in lowest terms, d = 0 is one of the IEEE special values   *)
(* (<<0,0>> NaN, <<1,0>> +inf, <<-1,0>> -inf).  Arithmetic is exact on the *)
(* finite values and follows IEEE-754 on the special ones; rounding of     *)
(* binary floating point is not modelled.  Python's None is <<>>.          *)
(***************************************************************************)
EXTENDS Integers, Sequences, FiniteSets, TLC

(***************************************************************************)
(* Bounds of the model.                                                    *)
(***************************************************************************)
\* rows of an uploaded table
MaxRows == 2
\* length of the constant run of closes that starts a validated series
MaxHead == 20
\* length of the freely chosen closes that end a validated series
MaxTail == 3
\* highest close of a rising validated series
MaxLevel == 5
\* requests the API serves at a time
MaxRequests == 1
\* rows the user_uploads table can take
MaxUploads == 2

(***************************************************************************)
(* Float arithmetic.                                                       *)
(***************************************************************************)
NaN == <<0, 0>>
PInf == <<1, 0>>
NInf == <<-1, 0>>
None == <<>>

Abs(x) == IF x < 0 THEN -x ELSE x

Sign(x) == IF x < 0 THEN -1 ELSE IF x > 0 THEN 1 ELSE 0

RECURSIVE GCD(_, _)
GCD(a, b) == IF b = 0 THEN a ELSE GCD(b, a % b)

\* the float n/d (d # 0), in lowest terms with a positive denominator
Frac(n, d) ==
  LET g == GCD(Abs(n), Abs(d))
      s == IF d < 0 THEN -1 ELSE 1
  IN  <<(s * n) \div g, (s * d) \div g>>

Flt(k) == <<k, 1>>

IsNaN(x) == x = NaN

IsInf(x) == x = PInf \/ x = NInf

IsFinite(x) == x[2] # 0

FSign(x) == Sign(x[1])

FNeg(x) == <<-x[1], x[2]>>

FAdd(x, y) ==
  IF IsNaN(x) \/ IsNaN(y) THEN NaN
  ELSE IF IsInf(x) /\ IsInf(y) THEN (IF x = y THEN x ELSE NaN)
  ELSE IF IsInf(x) THEN x
  ELSE IF IsInf(y) THEN y
  ELSE LET g == GCD(x[2], y[2])
       IN  Frac(x[1] * (y[2] \div g) + y[1] * (x[2] \div g), (x[2] \div g) * y[2])

FSub(x, y) == FAdd(x, FNeg(y))

FMul(x, y) ==
  IF IsNaN(x) \/ IsNaN(y) THEN NaN
  ELSE IF IsInf(x) \/ IsInf(y)
       THEN (IF FSign(x) * FSign(y) = 0 THEN NaN ELSE <<FSign(x) * FSign(y), 0>>)
  ELSE LET g1 == GCD(Abs(x[1]), y[2])
           g2 == GCD(Abs(y[1]), x[2])
       IN  Frac((x[1] \div g1) * (y[1] \div g2), (x[2] \div g2) * (y[2] \div g1))

\* IEEE division: x/0 is +-inf (NaN for 0/0), finite/inf is 0, inf/inf is NaN
FDiv(x, y) ==
  IF IsNaN(x) \/ IsNaN(y) THEN NaN
  ELSE IF IsInf(y) THEN (IF IsInf(x) THEN NaN ELSE Flt(0))
  ELSE IF y[1] = 0 THEN (IF x[1] = 0 THEN NaN ELSE <<FSign(x), 0>>)
  ELSE IF IsInf(x) THEN <<FSign(x) * FSign(y), 0>>
  ELSE FMul(x, Frac(y[2], y[1]))

\* x < y on floats; every comparison with NaN is false
FLt(x, y) ==
  IF IsNaN(x) \/ IsNaN(y) THEN FALSE
  ELSE IF IsInf(x) \/ IsInf(y)
       THEN (IF IsInf(x) /\ IsInf(y) THEN x[1] < y[1]
             ELSE IF IsInf(x) THEN x = NInf
             ELSE y = PInf)
  ELSE x[1] * y[2] < y[1] * x[2]

FGt(x, y) == FLt(y, x)

FLe(x, y) == ~IsNaN(x) /\ ~IsNaN(y) /\ ~FLt(y, x)


(***************************************************************************)
(* Tables.  An uploaded table is a list of column names and a list of      *)
(* rows; a raw cell is [t, v]: a number ("num"), a calendar day ("date",   *)
(* v the day number), a text that is neither ("text") or an empty cell     *)
(* ("blank").                                                              *)
(***************************************************************************)
VARIABLES table, result, analysis, user_uploads, storage, requests, answer

vars == <<table, result, analysis, user_uploads, storage, requests, answer>>

Num(k) == [t |-> "num", v |-> k]

Day(k) == [t |-> "date", v |-> k]

Text == [t |-> "text", v |-> 0]

Blank == [t |-> "blank", v |-> 0]

Range(s) == {s[i] : i \in DOMAIN s}

\* The value pandas gives a Date it cannot parse.
NaT == 0

required == {"Date", "Open", "High", "Low", "Close", "Volume"}

\* pd.to_datetime(errors="coerce")
to_datetime(cell) == IF cell.t = "date" THEN cell.v ELSE NaT

\* pd.to_numeric(errors="coerce")
to_numeric(cell) == IF cell.t = "num" THEN Flt(cell.v) ELSE NaN

\* variant: the columns must be exactly the required ones
has_required_exact(columns) == Range(columns) = required
\* required.issubset(set(df.columns))
has_required(columns) == required \subseteq Range(columns)

\* df["Date"] = pd.to_datetime(...): the frame keeps the rows' labels 0..n-1
convert_dates(rows) ==
  [i \in DOMAIN rows |->
     [index |-> i - 1, Date |-> to_datetime(rows[i].Date),
      Open |-> rows[i].Open, High |-> rows[i].High, Low |-> rows[i].Low,
      Close |-> rows[i].Close, Volume |-> rows[i].Volume]]

HasDate(r) == r.Date # NaT

\* df.dropna(subset=["Date"])
dropna_Date(df) == SelectSeq(df, HasDate)

\* for c in [Open, High, Low, Close, Volume]: df[c] = pd.to_numeric(df[c], ...)
convert_numeric(df) ==
  [i \in DOMAIN df |->
     [index |-> df[i].index, Date |-> df[i].Date,
      Open |-> to_numeric(df[i].Open), High |-> to_numeric(df[i].High),
      Low |-> to_numeric(df[i].Low), Close |-> to_numeric(df[i].Close),
      Volume |-> to_numeric(df[i].Volume)]]

\* variant: Volume checked in place of High and Low
price_isna_volume(df) ==
  \E i \in DOMAIN df : IsNaN(df[i].Open) \/ IsNaN(df[i].Close) \/ IsNaN(df[i].Volume)
\* df[["Open", "High", "Low", "Close"]].isna().any().any()
price_isna(df) ==
  \E i \in DOMAIN df :
     IsNaN(df[i].Open) \/ IsNaN(df[i].High) \/ IsNaN(df[i].Low) \/ IsNaN(df[i].Close)

\* variant: .all() in place of .any()
high_below_low_all(df) == df # <<>> /\ \A i \in DOMAIN df : FLt(df[i].High, df[i].Low)
\* (df["High"] < df["Low"]).any()
high_below_low(df) == \E i \in DOMAIN df : FLt(df[i].High, df[i].Low)

IndexPermutations(n) == {p \in [1..n -> 1..n] : \A i, j \in 1..n : p[i] = p[j] => i = j}

IsSortedByDate(df) == \A i, j \in DOMAIN df : i < j => df[i].Date <= df[j].Date

\* variant: the frame left in input order
sort_values_none(df) == {df}
\* df.sort_values("Date"): pandas sorts with kind="quicksort" unless told
\* otherwise, which orders the keys and promises nothing about the order of
\* rows with equal keys; every such outcome is possible.
sort_values(df) ==
  {s \in {[i \in DOMAIN df |-> df[p[i]]] : p \in IndexPermutations(Len(df))} :
     IsSortedByDate(s)}

\* df.reset_index(drop=True)
reset_index(df) == [i \in DOMAIN df |-> [df[i] EXCEPT !.index = i - 1]]

Labels(df) == [i \in DOMAIN df |-> df[i].index]

HTTPException(code, msg) ==
  [status |-> code, detail |-> msg, df |-> <<>>, labels |-> <<>>]

\* What validate_excel can return or raise for a table.  labels records the
\* labels of the sorted rows before reset_index renumbers them, i.e. each
\* returned row's position in the input.
validate_excel(tbl) ==
  IF ~has_required(tbl.columns)
  THEN {HTTPException(400, "Invalid Excel format")}
  ELSE LET dated == dropna_Date(convert_dates(tbl.rows))
           df == convert_numeric(dated)
       IN  IF dated = <<>>
           THEN {HTTPException(400, "no valid dates")}
           ELSE IF price_isna(df)
           THEN {HTTPException(400, "non-numeric or empty Open/High/Low/Close")}
           ELSE IF high_below_low(df)
           THEN {HTTPException(400, "High < Low")}
           ELSE {[status |-> 200, detail |-> "", df |-> reset_index(s),
                  labels |-> Labels(s)] : s \in sort_values(df)}

(***************************************************************************)
(* Series operations of pandas used by rsi and compute_analysis.  A series *)
(* is a sequence of floats.                                                *)
(***************************************************************************)
sma_window == 20

rsi_period == 14

\* A series given entry by entry, as a sequence.
Series(f) == f \o <<>>

\* s + k for a scalar k, and s / t entry by entry
SAdd(s, k) == Series([i \in DOMAIN s |-> FAdd(s[i], k)])

SDiv(s, t) == Series([i \in DOMAIN s |-> FDiv(s[i], t[i])])

\* df[c]
Column(df, c) == Series([i \in DOMAIN df |-> df[i][c]])

\* variant: 0 where there is no previous entry
pct_change_zero(s) ==
  Series([i \in DOMAIN s |->
            IF i = 1 THEN Flt(0) ELSE FSub(FDiv(s[i], s[i - 1]), Flt(1))])
\* close.pct_change(): close / close.shift(1) - 1, NaN where there is no
\* previous entry
pct_change(s) ==
  Series([i \in DOMAIN s |->
            IF i = 1 THEN NaN ELSE FSub(FDiv(s[i], s[i - 1]), Flt(1))])

\* series.diff(): series - series.shift(1), NaN where there is no previous
\* entry
diff(s) == Series([i \in DOMAIN s |-> IF i = 1 THEN NaN ELSE FSub(s[i], s[i - 1])])

\* variant: NaN left in place
fillna_none(s) == s
\* series.fillna(0)
fillna(s) == Series([i \in DOMAIN s |-> IF IsNaN(s[i]) THEN Flt(0) ELSE s[i]])

\* series.dropna()
NotNaN(x) == ~IsNaN(x)

dropna(s) == SelectSeq(s, NotNaN)

RECURSIVE cumprod_run(_, _, _)
cumprod_run(y, i, out) ==
  IF i > Len(y) THEN out
  ELSE cumprod_run(y, i + 1,
                   Append(out, IF i = 1 THEN y[1] ELSE FMul(out[i - 1], y[i])))

\* series.cumprod(): NaN entries are skipped (taken as 1) and stay NaN
cumprod(s) ==
  LET y == Series([i \in DOMAIN s |-> IF IsNaN(s[i]) THEN Flt(1) ELSE s[i]])
      r == cumprod_run(y, 1, <<>>)
  IN  Series([i \in DOMAIN s |-> IF IsNaN(s[i]) THEN NaN ELSE r[i]])

FMax(x, y) == IF FLt(x, y) THEN y ELSE x

FMin(x, y) == IF FLt(y, x) THEN y ELSE x

RECURSIVE cummax_run(_, _, _)
cummax_run(y, i, out) ==
  IF i > Len(y) THEN out
  ELSE cummax_run(y, i + 1,
                  Append(out, IF i = 1 THEN y[1] ELSE FMax(out[i - 1], y[i])))

\* variant: the first value (1.0) in place of the running maximum
cummax_first(s) == Series([i \in DOMAIN s |-> Flt(1)])
\* series.cummax(): NaN entries are skipped (taken as -inf) and stay NaN
cummax(s) ==
  LET y == Series([i \in DOMAIN s |-> IF IsNaN(s[i]) THEN NInf ELSE s[i]])
      r == cummax_run(y, 1, <<>>)
  IN  Series([i \in DOMAIN s |-> IF IsNaN(s[i]) THEN NaN ELSE r[i]])

RECURSIVE rolling_sum_run(_, _, _, _)
rolling_sum_run(s, w, i, out) ==
  IF i > Len(s) THEN out
  ELSE LET prev == IF i = 1 THEN Flt(0) ELSE out[i - 1]
           added == FAdd(prev, s[i])
       IN  rolling_sum_run(s, w, i + 1,
             Append(out, IF i > w THEN FSub(added, s[i - w]) ELSE added))

\* variant: a window one entry short
rolling_mean_short(s, w) ==
  LET sum == rolling_sum_run(s, w - 1, 1, <<>>)
  IN  Series([i \in DOMAIN s |-> IF i < w THEN NaN ELSE FDiv(sum[i], Flt(w - 1))])
\* series.rolling(w).mean() of a series without NaN: a sliding sum that adds
\* the entering value and removes the leaving one; min_periods is w
rolling_mean(s, w) ==
  LET sum == rolling_sum_run(s, w, 1, <<>>)
  IN  Series([i \in DOMAIN s |-> IF i < w THEN NaN ELSE FDiv(sum[i], Flt(w))])

\* One step of pandas' ewm(alpha, adjust=False).mean() (ignore_na=False,
\* min_periods=0).  st = <<weighted, old_wt>>.
ewm_step(st, cur, alpha) ==
  LET weighted == st[1]
      old_wt == FMul(st[2], FSub(Flt(1), alpha))
  IN  IF ~IsNaN(weighted)
      THEN IF ~IsNaN(cur)
           THEN <<IF weighted # cur
                  THEN FDiv(FAdd(FMul(old_wt, weighted), FMul(alpha, cur)),
                            FAdd(old_wt, alpha))
                  ELSE weighted,
                  Flt(1)>>
           ELSE <<weighted, old_wt>>
      ELSE IF ~IsNaN(cur) THEN <<cur, st[2]>> ELSE st

RECURSIVE ewm_run(_, _, _, _, _)
ewm_run(s, alpha, i, st, out) ==
  IF i > Len(s) THEN out
  ELSE LET nxt == IF i = 1 THEN <<s[1], Flt(1)>> ELSE ewm_step(st, s[i], alpha)
       IN  ewm_run(s, alpha, i + 1, nxt, Append(out, nxt[1]))

ewm_mean(s, alpha) == ewm_run(s, alpha, 1, <<NaN, Flt(1)>>, <<>>)

\* series.clip(lower=0)
clip_lower0(s) ==
  Series([i \in DOMAIN s |-> IF IsNaN(s[i]) THEN NaN ELSE FMax(s[i], Flt(0))])

\* variant: zeros left in place
replace_0_nan_none(s) == s
\* series.replace(0, np.nan)
replace_0_nan(s) == Series([i \in DOMAIN s |-> IF s[i] = Flt(0) THEN NaN ELSE s[i]])

gain(series) == clip_lower0(diff(series))

loss(series) ==
  LET delta == diff(series)
  IN  clip_lower0(Series([i \in DOMAIN series |-> FNeg(delta[i])]))

avg_gain(series, period) == ewm_mean(gain(series), Frac(1, period))

avg_loss(series, period) == ewm_mean(loss(series), Frac(1, period))

rsi(series, period) ==
  LET ag == avg_gain(series, period)
      al == replace_0_nan(avg_loss(series, period))
      rs == SDiv(ag, al)
  IN  Series([i \in DOMAIN series |->
                FSub(Flt(100), FDiv(Flt(100), FAdd(Flt(1), rs[i])))])

(***************************************************************************)
(* Statistics of a series (pandas skips nothing here: the series passed    *)
(* have had their NaN dropped).                                            *)
(***************************************************************************)
RECURSIVE SumUpTo(_, _)
SumUpTo(s, n) == IF n = 0 THEN Flt(0) ELSE FAdd(SumUpTo(s, n - 1), s[n])

\* series.sum()
sum(s) == SumUpTo(s, Len(s))

\* series.mean(): NaN for an empty series
mean(s) == FDiv(sum(s), Flt(Len(s)))

\* The square of series.std() (ddof=1): NaN when fewer than two values,
\* else sum((avg - x)^2) / (count - 1).  std itself is the square root,
\* which is > 0, = 0, NaN or inf exactly when this is.
std_squared(s) ==
  IF Len(s) <= 1 THEN NaN
  ELSE LET avg == mean(s)
           sqr == Series([i \in DOMAIN s |-> FMul(FSub(avg, s[i]), FSub(avg, s[i]))])
       IN  FDiv(sum(sqr), Flt(Len(s) - 1))

IsPositive(x) == FGt(x, Flt(0))

IsNegative(x) == FLt(x, Flt(0))

RECURSIVE MinUpTo(_, _)
MinUpTo(s, n) == IF n = 1 THEN s[1] ELSE FMin(MinUpTo(s, n - 1), s[n])

\* series.min(), skipping NaN
min(s) == LET d == dropna(s) IN IF d = <<>> THEN NaN ELSE MinUpTo(d, Len(d))

\* to_list(col): NaN becomes None, everything else float(v)
to_list(s) == Series([i \in DOMAIN s |-> IF IsNaN(s[i]) THEN None ELSE s[i]])

\* The window functions take an infinite entry as NaN.
prep_values(s) == Series([i \in DOMAIN s |-> IF IsInf(s[i]) THEN NaN ELSE s[i]])

\* The square of series.rolling(w).std() (ddof=1, min_periods w): NaN unless
\* the window holds w observations, else their sample variance.
rolling_std_squared(s, w) ==
  LET v == prep_values(s)
  IN  Series([i \in DOMAIN s |->
                IF i < w THEN NaN
                ELSE LET win == SubSeq(v, i - w + 1, i)
                     IN  IF dropna(win) # win THEN NaN ELSE std_squared(win)])

\* The value a + k * sqrt(v2) of a float a, an integer k and the square v2
\* of a standard deviation, kept as <<a, k, v2>>: the square root is not
\* rational.  NaN when a or v2 is.
surd(a, k, v2) == IF IsNaN(a) \/ IsNaN(v2) THEN NaN ELSE <<a, k, v2>>

\* mid + k * std, entry by entry
band(mid, k, sd2) == Series([i \in DOMAIN mid |-> surd(mid[i], k, sd2[i])])

\* to_list for a series of such values
surd_list(s) == Series([i \in DOMAIN s |-> IF s[i] = NaN THEN None ELSE s[i]])

\* x takes the place of y as the entry found so far
better(how, x, y) ==
  CASE how = "greater" -> FGt(x, y)
    [] how = "less" -> FLt(x, y)
    [] how = "not less" -> FLe(y, x)

RECURSIVE argbest(_, _, _, _)
\* The position of the entry of s that no other entry is better than, NaN
\* entries skipped; 0 when all entries are NaN.
argbest(s, how, i, best) ==
  IF i > Len(s) THEN best
  ELSE argbest(s, how, i + 1,
               IF IsNaN(s[i]) THEN best
               ELSE IF best = 0 \/ better(how, s[i], s[best]) THEN i ELSE best)

\* variant: the last of the greatest entries
idxmax_last(s) == argbest(s, "not less", 1, 0)
\* series.idxmax(): the first of the greatest entries
idxmax(s) == argbest(s, "greater", 1, 0)

\* series.idxmin(): the first of the least entries
idxmin(s) == argbest(s, "less", 1, 0)

\* Calendar dates.  The days of one year are numbered from 1 (1 January).
MonthDays == <<31, 28, 31, 30, 31, 30, 31, 31, 30, 31, 30, 31>>

RECURSIVE month_day(_, _)
month_day(d, m) ==
  IF d <= MonthDays[m] THEN <<m, d>> ELSE month_day(d - MonthDays[m], m + 1)

\* date.isoformat(), without the year: <<month, day of the month>>
isoformat(d) == month_day(d, 1)

\* Date.dt.to_period("M"), without the year
to_period_M(d) == month_day(d, 1)[1]

RECURSIVE Ascending(_)
\* the members of a set of integers in increasing order
Ascending(S) ==
  IF S = {} THEN <<>>
  ELSE LET top == CHOOSE x \in S : \A y \in S : y <= x
       IN  Append(Ascending(S \ {top}), top)

RECURSIVE month_prod(_, _, _, _)
\* (1 + x).prod() over the first n rows that have a return and are of month m
month_prod(df, ret, m, n) ==
  IF n = 0 THEN Flt(1)
  ELSE LET p == month_prod(df, ret, m, n - 1)
       IN  IF ~IsNaN(ret[n]) /\ to_period_M(df[n].Date) = m
           THEN FMul(p, FAdd(Flt(1), ret[n]))
           ELSE p

\* the months of the rows that have a return, in increasing order
months_of(df, ret) ==
  Ascending({to_period_M(df[i].Date) : i \in {j \in DOMAIN df : ~IsNaN(ret[j])}})

\* dfm.groupby("month")["ret"].apply(lambda x: (1 + x).prod() - 1)
monthly(df, ret) ==
  LET months == months_of(df, ret)
  IN  Series([k \in DOMAIN months |->
                FSub(month_prod(df, ret, months[k], Len(df)), Flt(1))])

\* {"date": ..., "return": ...} and {"month": ..., "return": ...}, as pairs
day_entry(df, ret, i) == <<isoformat(df[i].Date), ret[i]>>

\* idxmax / idxmin of a series whose entries are all NaN gives NaN as the
\* label, and max / min give NaN
month_entry(months, mon, i) ==
  IF i = 0 THEN <<NaN, NaN>> ELSE <<months[i], mon[i]>>

\* variant: >= in place of >
enough_returns_ge(total) == total >= 10
\* if total > 10
enough_returns(total) == total > 10

\* float((mean / std) * np.sqrt(252)), kept as the pair <<mean, std^2>>: the
\* square root is not rational
annualized(m, sd2) == <<m, sd2>>

(***************************************************************************)
(* compute_analysis(df) for a validated frame df.  Of its result all the   *)
(* summary fields but date_range are modelled, and all the series but      *)
(* dates, ema20, macd, macd_signal and macd_hist.                          *)
(***************************************************************************)
compute_analysis(df) ==
  LET close == Column(df, "Close")
      ret == pct_change(close)
      cum_return == cumprod(SAdd(fillna(ret), Flt(1)))
      roll_max == cummax(cum_return)
      drawdown == SAdd(SDiv(cum_return, roll_max), Flt(-1))
      sma20 == rolling_mean(close, sma_window)
      std == rolling_std_squared(close, sma_window)
      rsi14 == rsi(close, rsi_period)
      volatility == rolling_std_squared(ret, sma_window)
      rets == dropna(ret)
      total == Len(rets)
      ups == SelectSeq(rets, IsPositive)
      downside == SelectSeq(rets, IsNegative)
      months == months_of(df, ret)
      mon == monthly(df, ret)
      std2 == std_squared(rets)
      dstd2 == std_squared(downside)
  IN  [done |-> TRUE,
       raised |-> FALSE,
       summary |->
         [rows |-> Len(df),
          positive_days_pct |->
            IF total # 0 THEN Frac(Len(ups), total) ELSE None,
          negative_days_pct |->
            IF total # 0 THEN Frac(Len(downside), total) ELSE None,
          avg_return_up_days |-> IF ups # <<>> THEN mean(ups) ELSE None,
          avg_return_down_days |-> IF downside # <<>> THEN mean(downside) ELSE None,
          best_day |-> IF total > 0 THEN day_entry(df, ret, idxmax(ret)) ELSE None,
          worst_day |-> IF total > 0 THEN day_entry(df, ret, idxmin(ret)) ELSE None,
          best_month |->
            IF rets # <<>> THEN month_entry(months, mon, idxmax(mon)) ELSE None,
          worst_month |->
            IF rets # <<>> THEN month_entry(months, mon, idxmin(mon)) ELSE None,
          max_drawdown |-> IF dropna(drawdown) # <<>> THEN min(drawdown) ELSE None,
          sharpe_annualized |->
            IF enough_returns(total) /\ IsPositive(std2)
            THEN annualized(mean(rets), std2) ELSE None,
          sortino_annualized |->
            IF enough_returns(total) /\ IsPositive(dstd2)
            THEN annualized(mean(rets), dstd2) ELSE None],
       series |->
         [open |-> to_list(Column(df, "Open")),
          high |-> to_list(Column(df, "High")),
          low |-> to_list(Column(df, "Low")),
          close |-> to_list(close),
          volume |-> to_list(Column(df, "Volume")),
          returns |-> to_list(ret),
          cum_return |-> to_list(cum_return),
          drawdown |-> to_list(drawdown),
          sma20 |-> to_list(sma20),
          bb_upper |-> surd_list(band(sma20, 2, std)),
          bb_mid |-> to_list(sma20),
          bb_lower |-> surd_list(band(sma20, -2, std)),
          rsi14 |-> to_list(rsi14),
          volatility |-> surd_list(band(Series([i \in DOMAIN ret |-> Flt(0)]), 1,
                                        volatility))]]

\* compute_analysis raised an exception
Raised == [done |-> FALSE, raised |-> TRUE]

\* monthly.idxmax() when every monthly return is NaN: up to pandas 2 its
\* result is NaN, from pandas 3 on it raises ValueError.
monthly_all_na(df) ==
  LET ret == pct_change(Column(df, "Close"))
      mon == monthly(df, ret)
  IN  mon # <<>> /\ idxmax(mon) = 0

\* what a call of compute_analysis(df) can come to
compute_analysis_outcomes(df) ==
  {compute_analysis(df)} \cup (IF monthly_all_na(df) THEN {Raised} ELSE {})

(***************************************************************************)
(* The API.  user_uploads is the metadata table, a set of rows; storage is *)
(* the bucket, a set of blobs; requests holds, for every request being     *)
(* served, what its handler has got to; answer is the answer given last.   *)
(***************************************************************************)
min_file_size == 50

Users == {"u1", "u2"}

\* str.lower() of the strings that occur
lower(str) ==
  CASE str = "Bearer " -> "bearer "
    [] str = ".XLS" -> ".xls"
    [] OTHER -> str

\* The Authorization header: absent, or a scheme followed by a token.  The
\* token of a user's session is named after the user.
NoHeader == [scheme |-> "", token |-> ""]

Bearer(token) == [scheme |-> "Bearer ", token |-> token]

Authorizations == {NoHeader, Bearer("expired")} \cup {Bearer(u) : u \in Users}

\* What the request to /auth/v1/user can come to: a reply with status 200
\* and the user of the session, a reply with another status, or an
\* exception of requests.get (status 0).
get_user_from_token_replies(token) ==
  {[status |-> 0, id |-> ""],
   IF token \in Users THEN [status |-> 200, id |-> token]
   ELSE [status |-> 401, id |-> ""]}

NoPath == <<>>

\* an exception of a handler, as the answer it makes; status 0: none
Response(code, msg) ==
  [status |-> code, detail |-> msg, path |-> NoPath, rows |-> 0]

NoResponse == Response(0, "")

\* JSONResponse({"ok": True, "path": path, ..., **analysis}); of the analysis
\* the row count is kept
JSONResponse(path, a) ==
  [status |-> 200, detail |-> "", path |-> path, rows |-> a.summary.rows]

\* The authentication both handlers start with; NoResponse when it passes.
authenticate(authorization, reply) ==
  IF authorization = NoHeader \/ lower(authorization.scheme) # "bearer "
  THEN Response(401, "Missing Authorization: Bearer <token>")
  ELSE IF reply.status = 0 THEN Response(500, "Auth request failed")
  ELSE IF reply.status # 200 THEN Response(401, "Invalid session")
  ELSE NoResponse

\* Uploaded files: the name the client gave and the bytes, which are named
\* here by what they hold; size is len(data), and read_excel what
\* pd.read_excel makes of them (no sheet: it raises).
NoSheet == [columns |-> <<>>, rows |-> <<>>]

NoName == [stem |-> "", ext |-> ""]

GoodSheet ==
  [columns |-> <<"Date", "Open", "High", "Low", "Close", "Volume">>,
   rows |-> <<[Date |-> Day(1), Open |-> Num(1), High |-> Num(2), Low |-> Num(1),
               Close |-> Num(2), Volume |-> Text]>>]

\* a sheet with a row whose High < Low
BadSheet ==
  [columns |-> <<"Date", "Open", "High", "Low", "Close", "Volume">>,
   rows |-> <<[Date |-> Day(1), Open |-> Num(1), High |-> Num(1), Low |-> Num(2),
               Close |-> Num(1), Volume |-> Num(7)]>>]

NoFile == [filename |-> NoName, data |-> "nothing"]

Files ==
  {NoFile,
   [filename |-> [stem |-> "notes", ext |-> ".txt"], data |-> "text"],
   [filename |-> NoName, data |-> "high below low"],
   [filename |-> [stem |-> "prices", ext |-> ".XLS"], data |-> "prices"]}

size(data) == IF data = "nothing" THEN 0 ELSE 4096

read_excel(data) ==
  CASE data = "prices" -> GoodSheet
    [] data = "high below low" -> BadSheet
    [] OTHER -> NoSheet

\* variant: every file is taken as a valid table
read_and_validate_lax(data) == {[status |-> 200, detail |-> "", df |-> <<>>, labels |-> <<>>]}
\* upload_excel from file.read() to validate_excel: the exception raised for
\* an empty or unreadable file, or what validate_excel returns or raises
read_and_validate(data) ==
  IF size(data) = 0 \/ size(data) < min_file_size
  THEN {HTTPException(400, "Archivo vacio o invalido")}
  ELSE IF read_excel(data) = NoSheet THEN {HTTPException(400, "No pude leer el Excel")}
  ELSE validate_excel(read_excel(data))

\* file.filename or "upload.xlsx"
filename_or_default(filename) ==
  IF filename = NoName THEN [stem |-> "upload", ext |-> ".xlsx"] ELSE filename

\* the MIME type storage_upload_excel sends
content_type(filename) ==
  IF lower(filename.ext) = ".xls" THEN "application/vnd.ms-excel"
  ELSE "application/vnd.openxmlformats-officedocument.spreadsheetml.sheet"

\* The file_path a row is inserted with, and f"{user_id}/{upload_id}.xlsx"
Pending == <<"pending">>

upload_path(user_id, upload_id) == <<user_id, "/", upload_id, ".xlsx">>

\* What a call that writes to the database or the bucket can come to: it
\* returns ("ok"), it raises and nothing was written ("error"), or it raises
\* although the write took place ("error_applied").
WriteOutcomes == {"ok", "error", "error_applied"}

\* storage.from_(bucket).upload(path, data, ...) with upsert
upload(store, path, data, ctype, outcome) ==
  IF outcome = "error" THEN store
  ELSE {b \in store : b.path # path}
         \cup {[path |-> path, data |-> data, content_type |-> ctype]}

\* variant: the second attempt's exception is swallowed too
storage_upload_excel_quiet(store, path, data, filename, a1, a2) ==
  [raised |-> FALSE,
   storage |-> upload(upload(store, path, data, content_type(filename), a1),
                      path, data, content_type(filename), a2)]
\* storage_upload_excel: a first attempt, and a second one if the first
\* raised; a1 and a2 are what the two calls come to.  Returns whether the
\* function raised, and the bucket it leaves.
storage_upload_excel(store, path, data, filename, a1, a2) ==
  LET ctype == content_type(filename)
      s1 == upload(store, path, data, ctype, a1)
  IN  IF a1 = "ok" THEN [raised |-> FALSE, storage |-> s1]
      ELSE [raised |-> a2 # "ok", storage |-> upload(s1, path, data, ctype, a2)]

\* table("user_uploads").insert({...})
insert(rows, id, user_id, filename) ==
  rows \cup {[id |-> id, user_id |-> user_id, file_path |-> Pending,
              original_name |-> filename_or_default(filename)]}

\* table("user_uploads").update({"file_path": path}).eq("id", upload_id)
update(rows, upload_id, path) ==
  {IF w.id = upload_id THEN [w EXCEPT !.file_path = path] ELSE w : w \in rows}

\* variant: the caller's row of highest id that has a stored file
latest_row_stored(rows, user_id) ==
  LET mine == {w \in rows : w.user_id = user_id /\ w.file_path # Pending}
  IN  {w \in mine : \A v \in mine : v.id <= w.id}
\* select(...).eq("user_id", user_id).order("id", desc=True).limit(1): the
\* caller's row of highest id, if any
latest_row(rows, user_id) ==
  LET mine == {w \in rows : w.user_id = user_id}
  IN  {w \in mine : \A v \in mine : v.id <= w.id}

\* download_from_storage: the blob at the path, if the request gets through
\* and the bucket has one
download_from_storage(store, path, outcome) ==
  IF outcome = "ok" THEN {b \in store : b.path = path} ELSE {}

\* One request being served: which handler serves it (op), where the
\* handler is (pc), and the handler's local variables.
Idle ==
  [op |-> "", pc |-> "idle", file |-> NoFile, user_id |-> "", df |-> <<>>,
   id |-> 0, path |-> NoPath]

\* An answer: the handler that gave it, the user it was given to (if
\* authenticated) and the response.
Answer(op, user_id, resp) == [op |-> op, user_id |-> user_id, response |-> resp]

NoAnswer == Answer("", "", NoResponse)

(***************************************************************************)
(* The state machine.  table is the uploaded table, result what            *)
(* validate_excel made of it (status 0: not called yet), analysis what     *)
(* compute_analysis returned for the validated frame.                      *)
(***************************************************************************)
ColumnLists ==
  {<<"Date", "Open", "High", "Low", "Close", "Volume">>,
   <<"Volume", "Close", "Low", "High", "Open", "Date">>,
   <<"Date", "Open", "High", "Low", "Close", "Volume", "Adj Close">>,
   <<"Date", "Open", "High", "Low", "Close">>,
   <<"Adj Close", "Volume", "Close", "Low", "High", "Open">>,
   <<"date", "Open", "High", "Low", "Close", "Volume">>}

CleanRows ==
  [Date : {Text, Day(1), Day(2)}, Open : {Num(1)}, High : {Num(1), Num(2)},
   Low : {Num(1), Num(2)}, Close : {Num(1)}, Volume : {Num(7)}]

\* a clean row, and the same row with one numeric cell made text or empty
Spoiled(r) ==
  {r, [r EXCEPT !.Open = Text], [r EXCEPT !.High = Blank], [r EXCEPT !.Low = Text],
   [r EXCEPT !.Close = Blank], [r EXCEPT !.Volume = Text]}

RowCells == UNION {Spoiled(r) : r \in CleanRows}

SeqsUpTo(S, n) == UNION {[1..k -> S] : k \in 0..n}

NotCalled == [status |-> 0, detail |-> "", df |-> <<>>, labels |-> <<>>]

NoAnalysis == [done |-> FALSE, raised |-> FALSE]

\* empty stores and no request yet
NoTraffic ==
  /\ user_uploads = {}
  /\ storage = {}
  /\ requests = [r \in 1..MaxRequests |-> Idle]
  /\ answer = NoAnswer

Init ==
  /\ table \in [columns : ColumnLists, rows : SeqsUpTo(RowCells, MaxRows)]
  /\ result = NotCalled
  /\ analysis = NoAnalysis
  /\ NoTraffic

ValidateExcel ==
  /\ result.status = 0
  /\ \E r \in validate_excel(table) : result' = r
  /\ UNCHANGED <<table, analysis, user_uploads, storage, requests, answer>>

ComputeAnalysis ==
  /\ result.status = 200
  /\ ~analysis.done
  /\ ~analysis.raised
  /\ analysis' \in compute_analysis_outcomes(result.df)
  /\ UNCHANGED <<table, result, user_uploads, storage, requests, answer>>

Next == ValidateExcel \/ ComputeAnalysis

Spec == Init /\ [][Next]_vars

(***************************************************************************)
(* The analysis alone, started from validated frames, one row per day:     *)
(* the closes are a run of one value followed by freely chosen values, or  *)
(* any strictly increasing sequence of levels.                             *)
(***************************************************************************)
HeadCloses == {2}

TailCloses == {-1, 0, 1, 2, 3}

Repeat(v, n) == [i \in 1..n |-> v]

RisingCloses == {Ascending(S) : S \in SUBSET (-1..MaxLevel)}

SeriesCloses ==
  ({Repeat(a, h) \o t : a \in HeadCloses, h \in 0..MaxHead,
                        t \in SeqsUpTo(TailCloses, MaxTail)}
   \cup RisingCloses) \ {<<>>}

RawRow(day, c) ==
  [Date |-> Day(day), Open |-> Num(c), High |-> Num(c), Low |-> Num(c),
   Close |-> Num(c), Volume |-> Num(7)]

\* the day of the first row: 29 January, so that a series of four or more
\* rows runs over two months
FirstDay == 29

RawTable(closes) ==
  [columns |-> <<"Date", "Open", "High", "Low", "Close", "Volume">>,
   rows |-> [i \in DOMAIN closes |-> RawRow(FirstDay + i - 1, closes[i])]]

\* validate_excel of a table whose rows are already in date order
Validated(tbl) ==
  LET df == convert_numeric(dropna_Date(convert_dates(tbl.rows)))
  IN  [status |-> 200, detail |-> "", df |-> reset_index(df), labels |-> Labels(df)]

InitSeries ==
  /\ table \in {RawTable(c) : c \in SeriesCloses}
  /\ result = Validated(table)
  /\ analysis = NoAnalysis
  /\ NoTraffic

NextSeries == ComputeAnalysis

SpecSeries == InitSeries /\ [][NextSeries]_vars

(***************************************************************************)
(* The API alone.  A handler is cut into steps at its calls to the         *)
(* database and the bucket, and the steps of the requests being served     *)
(* interleave (the application serves requests from several threads and    *)
(* workers).  A request takes the first free place of requests, and gives  *)
(* it up when it is answered.                                              *)
(***************************************************************************)
Arrives(r) ==
  /\ requests[r].pc = "idle"
  /\ \A q \in 1..(r - 1) : requests[q].pc # "idle"

\* the id the database gives a new row: user_uploads.id is an identity
\* column, which numbers the rows in the order they are inserted
NextId == Cardinality(user_uploads) + 1

\* the table has room for the rows of the uploads being served and one more
Room ==
  Cardinality(user_uploads)
    + Cardinality({q \in 1..MaxRequests : requests[q].pc = "insert"}) < MaxUploads

\* the handler of request r raises HTTPException(code, msg)
Raises(r, code, msg) ==
  /\ requests' = [requests EXCEPT ![r] = Idle]
  /\ answer' = Answer(requests[r].op, requests[r].user_id, Response(code, msg))

\* a handler raises HTTPException before its request has taken a place
Refuses(op, user_id, resp) ==
  /\ requests' = requests
  /\ answer' = Answer(op, user_id, resp)

\* the replies get_user_from_token can get, if the handler calls it
Replies(authorization) ==
  IF authenticate(authorization, [status |-> 200, id |-> ""]) # NoResponse
  THEN {[status |-> 0, id |-> ""]}
  ELSE get_user_from_token_replies(authorization.token)

\* upload_excel up to validate_excel: nothing is written
UploadValidate(r) ==
  /\ Arrives(r)
  /\ \E authorization \in Authorizations :
       \E reply \in Replies(authorization) :
          LET auth == authenticate(authorization, reply)
          IN  IF auth # NoResponse THEN Refuses("upload", "", auth)
              ELSE \E file \in Files :
                   \E res \in read_and_validate(file.data) :
                      IF res.status # 200
                      THEN Refuses("upload", reply.id, Response(res.status, res.detail))
                      ELSE /\ Room
                           /\ requests' = [requests EXCEPT ![r] =
                                [Idle EXCEPT !.op = "upload", !.pc = "insert",
                                             !.file = file, !.user_id = reply.id,
                                             !.df = res.df]]
                           /\ answer' = answer
  /\ UNCHANGED <<table, result, analysis, user_uploads, storage>>

\* the insert of the metadata row, and the test of the id it returns
UploadInsert(r) ==
  /\ requests[r].pc = "insert"
  /\ LET req == requests[r]
     IN  \/ /\ user_uploads' = user_uploads
            /\ Raises(r, 500, "DB error insert user_uploads")
         \/ \E outcome \in {"ok", "no_id", "error_applied"} :
            LET id == NextId
            IN
              /\ user_uploads' = insert(user_uploads, id, req.user_id, req.file.filename)
              /\ IF outcome = "ok"
                 THEN /\ requests' = [requests EXCEPT ![r] =
                           [req EXCEPT !.pc = "store", !.id = id,
                                       !.path = upload_path(req.user_id, id)]]
                      /\ answer' = answer
                 ELSE IF outcome = "no_id"
                 THEN Raises(r, 500, "user_uploads insert no devolvio id")
                 ELSE Raises(r, 500, "DB error insert user_uploads")
  /\ UNCHANGED <<table, result, analysis, storage>>

\* the upload to the bucket
UploadStore(r) ==
  /\ requests[r].pc = "store"
  /\ \E a1 \in WriteOutcomes :
     \E a2 \in IF a1 = "ok" THEN {"ok"} ELSE WriteOutcomes :
       LET req == requests[r]
           resp == storage_upload_excel(storage, req.path, req.file.data,
                                        filename_or_default(req.file.filename), a1, a2)
       IN  /\ storage' = resp.storage
           /\ IF resp.raised
              THEN Raises(r, 500, "Storage upload error REAL")
              ELSE /\ requests' = [requests EXCEPT ![r] = [req EXCEPT !.pc = "update"]]
                   /\ answer' = answer
  /\ UNCHANGED <<table, result, analysis, user_uploads>>

\* the update of the row's file_path, compute_analysis and the answer
UploadUpdate(r) ==
  /\ requests[r].pc = "update"
  /\ \E outcome \in WriteOutcomes :
       LET req == requests[r]
       IN  /\ user_uploads' =
                IF outcome = "error" THEN user_uploads
                ELSE update(user_uploads, req.id, req.path)
           /\ \E a \in compute_analysis_outcomes(req.df) :
                IF outcome # "ok" THEN Raises(r, 500, "DB update error")
                ELSE IF a.raised THEN Raises(r, 500, "Unexpected server error")
                ELSE /\ requests' = [requests EXCEPT ![r] = Idle]
                     /\ answer' = Answer("upload", req.user_id,
                                         JSONResponse(req.path, a))
  /\ UNCHANGED <<table, result, analysis, storage>>

\* latest_excel up to the test of the row's file_path
LatestSelect(r) ==
  /\ Arrives(r)
  /\ \E authorization \in Authorizations :
       \E reply \in Replies(authorization) :
          LET auth == authenticate(authorization, reply)
              q == latest_row(user_uploads, reply.id)
          IN  IF auth # NoResponse THEN Refuses("latest", "", auth)
              ELSE \/ Refuses("latest", reply.id, Response(500, "DB select error"))
                   \/ IF q = {}
                      THEN Refuses("latest", reply.id,
                                   Response(404, "No hay Excel guardado"))
                      ELSE LET row == CHOOSE w \in q : TRUE
                           IN  IF row.file_path = NoPath \/ row.file_path = Pending
                               THEN Refuses("latest", reply.id,
                                            Response(404, "no tiene file_path valido"))
                               ELSE /\ requests' = [requests EXCEPT ![r] =
                                         [Idle EXCEPT !.op = "latest", !.pc = "download",
                                                      !.user_id = reply.id, !.id = row.id,
                                                      !.path = row.file_path]]
                                    /\ answer' = answer
  /\ UNCHANGED <<table, result, analysis, user_uploads, storage>>

\* the download of the file, validate_excel, compute_analysis and the answer
LatestDownload(r) ==
  /\ requests[r].pc = "download"
  /\ \E outcome \in {"ok", "error"} :
       LET req == requests[r]
           content == download_from_storage(storage, req.path, outcome)
       IN  IF content = {} THEN Raises(r, 500, "Storage download")
           ELSE LET data == (CHOOSE b \in content : TRUE).data
                IN  IF read_excel(data) = NoSheet
                    THEN Raises(r, 500, "No pude leer el Excel descargado")
                    ELSE \E res \in validate_excel(read_excel(data)) :
                         \E a \in compute_analysis_outcomes(res.df) :
                            IF res.status # 200 THEN Raises(r, res.status, res.detail)
                            ELSE IF a.raised
                            THEN Raises(r, 500, "Unexpected server error")
                            ELSE /\ requests' = [requests EXCEPT ![r] = Idle]
                                 /\ answer' = Answer("latest", req.user_id,
                                                     JSONResponse(req.path, a))
  /\ UNCHANGED <<table, result, analysis, user_uploads, storage>>

InitApi ==
  /\ table = NoSheet
  /\ result = NotCalled
  /\ analysis = NoAnalysis
  /\ NoTraffic

NextApi ==
  \E r \in 1..MaxRequests :
     \/ UploadValidate(r)
     \/ UploadInsert(r)
     \/ UploadStore(r)
     \/ UploadUpdate(r)
     \/ LatestSelect(r)
     \/ LatestDownload(r)

SpecApi == InitApi /\ [][NextApi]_vars

(***************************************************************************)
(* Properties of validate_excel (specification Spec).                      *)
(***************************************************************************)
Validated200 == result.status = 200

Rejected == result.status = 400 /\ result.df = <<>>

DateParses(r) == r.Date.t = "date"

IsNumber(cell) == cell.t = "num"

DatedRows == {i \in DOMAIN table.rows : DateParses(table.rows[i])}

\* the input row a returned row was made from
SourceRow(i) == table.rows[result.labels[i] + 1]

\* C1: a returned series is in non-decreasing Date order, has as many rows as
\* the input has rows whose Date parses, and consists of exactly those rows.
C1_SortedComplete ==
  Validated200 =>
    /\ \A i \in 1..(Len(result.df) - 1) : result.df[i].Date <= result.df[i + 1].Date
    /\ Len(result.df) = Cardinality(DatedRows)
    /\ {result.labels[i] + 1 : i \in DOMAIN result.labels} = DatedRows
    /\ \A i \in DOMAIN result.df : result.df[i].Date = SourceRow(i).Date.v

\* C1 witness: two dated rows given in descending date order were returned.
C1_Witness ==
  /\ Validated200
  /\ Len(table.rows) = 2
  /\ Len(result.df) = 2
  /\ DateParses(table.rows[1]) /\ DateParses(table.rows[2])
  /\ table.rows[1].Date.v > table.rows[2].Date.v

\* C2: a table lacking one of the six required columns is rejected whatever
\* the order of its columns and whatever other columns it has; and a table
\* that has them all is treated exactly as the same table without its other
\* columns.
C2_RequiredColumns ==
  result.status # 0 =>
    /\ (\E c \in required : c \notin Range(table.columns)) => Rejected
    /\ (\A c \in required : c \in Range(table.columns)) =>
         result \in validate_excel(
           [table EXCEPT !.columns = <<"Date", "Open", "High", "Low", "Close", "Volume">>])

\* C2 witness: a table with an extra column and a required one missing was
\* rejected, its rows being acceptable.
C2_Witness ==
  /\ Rejected
  /\ "Adj Close" \in Range(table.columns)
  /\ "Date" \notin Range(table.columns)
  /\ table.rows # <<>>
  /\ \A i \in DOMAIN table.rows :
       /\ DateParses(table.rows[i])
       /\ \A c \in {"Open", "High", "Low", "Close", "Volume"} : IsNumber(table.rows[i][c])
       /\ table.rows[i].High.v >= table.rows[i].Low.v

HighBelowLow(r) == IsNumber(r.High) /\ IsNumber(r.Low) /\ r.High.v < r.Low.v

\* C3 as claimed: the input is rejected whenever any of its rows has
\* High < Low, a row whose Date does not parse included.
C3_AnyRowHighBelowLow ==
  result.status # 0 =>
    ((\E i \in DOMAIN table.rows : HighBelowLow(table.rows[i])) => Rejected)

\* C3 as amended: the input is rejected whenever any of its rows whose Date
\* parses has High < Low, even if it is the only such row.
C3_DatedRowHighBelowLow ==
  result.status # 0 =>
    ((\E i \in DatedRows : HighBelowLow(table.rows[i])) => Rejected)

\* C3 witness: of two complete rows with parseable dates exactly one has
\* High < Low, and the table was rejected for it.
C3_Witness ==
  /\ Rejected
  /\ result.detail = "High < Low"
  /\ Len(table.rows) = 2
  /\ HighBelowLow(table.rows[2])
  /\ ~HighBelowLow(table.rows[1])

PriceNotNumeric(r) ==
  \E c \in {"Open", "High", "Low", "Close"} : ~IsNumber(r[c])

\* the table with every Volume cell a number
VolumeFilled ==
  [table EXCEPT !.rows = [i \in DOMAIN table.rows |->
                            [table.rows[i] EXCEPT !.Volume = Num(7)]]]

\* C4 as claimed: any row with a non-numeric or missing Open, High, Low or
\* Close makes validate_excel reject the input.
C4_AnyRowPriceNotNumeric ==
  result.status # 0 =>
    ((\E i \in DOMAIN table.rows : PriceNotNumeric(table.rows[i])) => Rejected)

\* C4 as amended: any row whose Date parses and whose Open, High, Low or
\* Close is non-numeric or missing makes validate_excel reject the input;
\* a non-numeric or missing Volume never does (the outcome is that of the
\* table with every Volume a number), the row is kept and its Volume is
\* reported as undefined.
C4_AsymmetricStrictness ==
  /\ result.status # 0 =>
       /\ (\E i \in DatedRows : PriceNotNumeric(table.rows[i])) => Rejected
       /\ result.status \in {r.status : r \in validate_excel(VolumeFilled)}
  /\ Validated200 =>
       \A i \in DOMAIN result.df :
          /\ IsNaN(result.df[i].Volume) <=> ~IsNumber(SourceRow(i).Volume)
          /\ analysis.done =>
               (analysis.series.volume[i] = None <=> ~IsNumber(SourceRow(i).Volume))

\* C4 witness: a row with a text Volume was kept and its volume reported as
\* undefined next to a row with a numeric Volume.
C4_Witness ==
  /\ analysis.done
  /\ Len(result.df) = 2
  /\ analysis.series.volume[1] = None
  /\ analysis.series.volume[2] # None

RECURSIVE InsertByDate(_, _)
\* s with row r put behind the last row whose Date is not later than r's
InsertByDate(s, r) ==
  IF s = <<>> \/ s[Len(s)].Date <= r.Date THEN Append(s, r)
  ELSE Append(InsertByDate(SubSeq(s, 1, Len(s) - 1), r), s[Len(s)])

RECURSIVE StableByDate(_, _)
\* the first n rows of df in Date order, rows of equal Date in input order
StableByDate(df, n) ==
  IF n = 0 THEN <<>> ELSE InsertByDate(StableByDate(df, n - 1), df[n])

\* C5 as claimed: the returned series is the stable sort by Date of the rows
\* whose Date parses (rows of equal Date keep their input order), numbered
\* 0..N-1.
C5_StableSort ==
  Validated200 =>
    LET dated == convert_numeric(dropna_Date(convert_dates(table.rows)))
    IN  /\ result.df = reset_index(StableByDate(dated, Len(dated)))
        /\ \A i, j \in DOMAIN result.df :
             (i < j /\ result.df[i].Date = result.df[j].Date)
                => result.labels[i] < result.labels[j]
        /\ \A i \in DOMAIN result.df : result.df[i].index = i - 1

N == Len(table.rows)

\* the close of bar i as given in the table
close(i) == table.rows[i].Close.v

RECURSIVE CloseTotal(_, _)
\* close(lo) + ... + close(hi)
CloseTotal(lo, hi) == IF hi < lo THEN 0 ELSE CloseTotal(lo, hi - 1) + close(hi)

\* C6: sma20 is undefined at the first 19 bars and from the 20th on is the
\* arithmetic mean of the 20 closes ending at the bar; bb_mid is the same value.
C6_Sma20 ==
  analysis.done =>
    \A i \in 1..N :
       /\ i <= 19 => analysis.series.sma20[i] = None
       /\ i >= 20 => analysis.series.sma20[i] = Frac(CloseTotal(i - 19, i), 20)
       /\ analysis.series.bb_mid[i] = analysis.series.sma20[i]

\* C6 witness: a series of more than 20 bars whose last two windows have
\* different means.
C6_Witness ==
  /\ analysis.done
  /\ N >= 21
  /\ analysis.series.sma20[N] # None
  /\ analysis.series.sma20[N] # analysis.series.sma20[N - 1]
  /\ close(N) # close(N - 1)

\* the smoothed average loss that rsi computes for the closes
AverageLoss == avg_loss([i \in 1..N |-> Flt(close(i))], rsi_period)

\* C7: every defined rsi14 value lies in [0, 100]; rsi14 is undefined at the
\* first bar, and wherever the smoothed average loss is exactly zero (so in
\* particular wherever no close so far was below its predecessor).
C7_RsiRange ==
  analysis.done =>
    LET al == AverageLoss
    IN  \A i \in 1..N :
           LET r == analysis.series.rsi14[i]
           IN  /\ r # None => (FLe(Flt(0), r) /\ FLe(r, Flt(100)))
               /\ i = 1 => r = None
               /\ al[i] = Flt(0) => r = None
               /\ (\A j \in 2..i : close(j) >= close(j - 1)) => r = None

\* C7 witness: a series with a gain and no loss up to bar 2, where rsi14 is
\* undefined, and with a value strictly between 0 and 100 later.
C7_Witness ==
  /\ analysis.done
  /\ N >= 3
  /\ close(2) > close(1)
  /\ analysis.series.rsi14[2] = None
  /\ analysis.series.rsi14[N] # None
  /\ FLt(Flt(0), analysis.series.rsi14[N])
  /\ FLt(analysis.series.rsi14[N], Flt(100))

\* C8: at the first bar cum_return is 1.0, drawdown is 0.0 and the daily
\* return is undefined.
C8_FirstBar ==
  analysis.done =>
    /\ analysis.series.cum_return[1] = Flt(1)
    /\ analysis.series.drawdown[1] = Flt(0)
    /\ analysis.series.returns[1] = None

\* C8 witness: a series of several bars whose second close differs from the
\* first.
C8_Witness ==
  /\ analysis.done
  /\ N >= 2
  /\ analysis.series.returns[2] # None
  /\ analysis.series.cum_return[2] # Flt(1)

\* the defined daily returns, as reported
DefinedReturns == SelectSeq(analysis.series.returns, LAMBDA x : x # None)

NegativeReturns == SelectSeq(DefinedReturns, IsNegative)

\* the standard deviation of s is > 0: s has two different values and
\* nothing infinite
SpreadPositive(s) ==
  /\ \A i \in DOMAIN s : IsFinite(s[i])
  /\ \E i, j \in DOMAIN s : s[i] # s[j]

\* C9: with 10 or fewer defined daily returns both ratios are undefined; with
\* more, Sharpe is defined exactly when the standard deviation of the defined
\* returns is > 0 and Sortino exactly when that of the negative returns is,
\* which takes two negative returns that differ.
C9_SharpeSortino ==
  analysis.done =>
    LET sharpe == analysis.summary.sharpe_annualized
        sortino == analysis.summary.sortino_annualized
        rets == DefinedReturns
        negs == NegativeReturns
    IN  /\ Len(rets) <= 10 => (sharpe = None /\ sortino = None)
        /\ Len(rets) > 10 =>
             /\ sharpe # None <=> SpreadPositive(rets)
             /\ sortino # None <=> SpreadPositive(negs)
             /\ sortino # None => \E i, j \in DOMAIN negs : negs[i] # negs[j]

\* C9 witness: more than 10 defined returns with both ratios defined.
C9_Witness ==
  /\ analysis.done
  /\ Len(DefinedReturns) > 10
  /\ analysis.summary.sharpe_annualized # None
  /\ analysis.summary.sortino_annualized # None

StrictlyIncreasingCloses == \A i \in 2..N : close(i) > close(i - 1)

RisingSeriesOutcome ==
  /\ Len(analysis.series.returns) = N
  /\ \A i \in 1..N : analysis.series.returns[i] = None <=> i = 1
  /\ \A i \in 2..N :
       /\ analysis.series.cum_return[i] # None
       /\ FLt(analysis.series.cum_return[i - 1], analysis.series.cum_return[i])
  /\ \A i \in 1..N : analysis.series.drawdown[i] = Flt(0)
  /\ analysis.summary.max_drawdown = Flt(0)
  /\ \A i \in 1..N : analysis.series.rsi14[i] = None

\* C10 as claimed: for strictly increasing closes, returns has one entry per
\* row with only the first undefined, cum_return is strictly increasing,
\* drawdown is 0 everywhere, max_drawdown is 0 and rsi14 is undefined
\* everywhere.
C10_Rising ==
  (analysis.done /\ StrictlyIncreasingCloses) => RisingSeriesOutcome

\* C10 as amended: the same for strictly increasing closes that are all
\* positive.
C10_RisingPositive ==
  (analysis.done /\ StrictlyIncreasingCloses /\ \A i \in 1..N : close(i) > 0)
     => RisingSeriesOutcome

\* C10 witness: five or more positive, strictly increasing closes analysed.
C10_Witness ==
  /\ analysis.done
  /\ N >= 5
  /\ StrictlyIncreasingCloses
  /\ \A i \in 1..N : close(i) > 0

\* x is null or a finite number
FiniteOrNone(x) == x = None \/ IsFinite(x)

\* the same for a value a + k * sqrt(v2), and for mean / sqrt(v2)
SurdFiniteOrNone(x) == x = None \/ (IsFinite(x[1]) /\ IsFinite(x[3]))

RatioFiniteOrNone(x) == x = None \/ (IsFinite(x[1]) /\ IsFinite(x[2]))

\* the same for the return of a best/worst day or month
EntryFiniteOrNone(x) == x = None \/ IsFinite(x[2])

\* C12 as claimed: every entry of every output series and every numeric
\* summary field is a finite number or null; a return whose previous close
\* is 0 is reported as null.
C12_FiniteOrNull ==
  analysis.done =>
    /\ \A c \in {"open", "high", "low", "close", "volume", "returns",
                 "cum_return", "drawdown", "sma20", "bb_mid", "rsi14"} :
          \A i \in 1..N : FiniteOrNone(analysis.series[c][i])
    /\ \A c \in {"bb_upper", "bb_lower", "volatility"} :
          \A i \in 1..N : SurdFiniteOrNone(analysis.series[c][i])
    /\ \A i \in 2..N : close(i - 1) = 0 => analysis.series.returns[i] = None
    /\ \A f \in {"positive_days_pct", "negative_days_pct", "avg_return_up_days",
                 "avg_return_down_days", "max_drawdown"} :
          FiniteOrNone(analysis.summary[f])
    /\ \A f \in {"best_day", "worst_day", "best_month", "worst_month"} :
          EntryFiniteOrNone(analysis.summary[f])
    /\ \A f \in {"sharpe_annualized", "sortino_annualized"} :
          RatioFiniteOrNone(analysis.summary[f])

\* the date of bar i as reported
BarDate(i) == isoformat(table.rows[i].Date.v)

\* bar i has a defined return that no defined return is greater (less)
\* than, and is the first such bar
FirstBest(i, how) ==
  LET r == analysis.series.returns
  IN  /\ r[i] # None
      /\ \A j \in 1..N :
            r[j] # None => ~(IF how = "greater" THEN FGt(r[j], r[i]) ELSE FLt(r[j], r[i]))
      /\ \A j \in 1..(i - 1) : r[j] # r[i]

\* C13: when some daily return is defined, best_day (worst_day) carries the
\* greatest (least) defined return and the date of the bar where it occurs,
\* the bar of smallest index among those that tie for it.
C13_BestWorstDay ==
  (analysis.done /\ \E i \in 1..N : analysis.series.returns[i] # None) =>
    /\ \E i \in 1..N :
          /\ FirstBest(i, "greater")
          /\ analysis.summary.best_day = <<BarDate(i), analysis.series.returns[i]>>
    /\ \E i \in 1..N :
          /\ FirstBest(i, "less")
          /\ analysis.summary.worst_day = <<BarDate(i), analysis.series.returns[i]>>

\* C13 witness: the greatest return occurs at several bars and differs from
\* the least one, which occurs at several bars too.
C13_Witness ==
  /\ analysis.done
  /\ \E i, j \in 2..N :
        /\ i < j
        /\ FirstBest(i, "greater")
        /\ analysis.series.returns[j] = analysis.series.returns[i]
  /\ \E i, j \in 2..N :
        /\ i < j
        /\ FirstBest(i, "less")
        /\ analysis.series.returns[j] = analysis.series.returns[i]
  /\ analysis.summary.best_day[2] # analysis.summary.worst_day[2]

(***************************************************************************)
(* Properties of the API (specification SpecApi).                          *)
(***************************************************************************)
\* the file is one that upload_excel accepts: it can be read and
\* validate_excel returns a series for it
Accepted(data) ==
  /\ size(data) >= min_file_size
  /\ read_excel(data) # NoSheet
  /\ \A res \in validate_excel(read_excel(data)) : res.status = 200

\* the response of an upload whose authentication failed, whose file could
\* not be read or whose table validate_excel rejected
UploadRejection(resp) ==
  \/ resp.status \in {400, 401}
  \/ resp.status = 500 /\ resp.detail = "Auth request failed"

RowsOf(user_id) == {w \in user_uploads : w.user_id = user_id}

TopRow(user_id) ==
  CHOOSE w \in RowsOf(user_id) : \A v \in RowsOf(user_id) : v.id <= w.id

=============================================================================
